---- MODULE Spec2Model ----
(***************************************************************************)
(* The RAG backend: the chat pipeline (ChatService.process_chat over the   *)
(* SupabaseService store and the RAGService providers) and the document    *)
(* ingestion (DocumentProcessor, the ingestion endpoints and the ingestion *)
(* script).                                                                *)
(*                                                                         *)
(* The store (books, document chunks, notebooks, chat messages) is shared  *)
(* by every server process; a chat turn is one call of process_chat, and   *)
(* turns interleave at the store calls.  Every call to the store, to the   *)
(* embedding provider and to the LLM provider may fail.                    *)
(*                                                                         *)
(* ingest is the ingestion request that is running, processed the files    *)
(* process_document was called on, probe the last application of a         *)
(* function that is checked on its own.                                    *)
(***************************************************************************)
EXTENDS Integers, Sequences, FiniteSets, TLC

VARIABLES books, chunks, notebooks, chat_messages, turns, rpc_calls, last_write, failures,
          ingest, processed, probe

vars == <<books, chunks, notebooks, chat_messages, turns, rpc_calls, last_write, failures,
          ingest, processed, probe>>

(***************************************************************************)
(* Bounds of the model.                                                    *)
(***************************************************************************)
MaxTurns == 2
MaxNotebooks == 1
MaxFailures == 1
MaxPages == 2
MaxExtra == 3
MaxDocs == 3
MaxHistory == 11
MaxContext == 2

(***************************************************************************)
(* Program constants.                                                      *)
(***************************************************************************)
TopK == 5
PreviewLen == 100
MaxFacts == 5
HistoryLimit == 10
HistoryWindow == 5
ChunkSize == 1000
ChunkOverlap == 100
FallbackDim == 384

Turns == 1..MaxTurns
NotebookIds == 1..MaxNotebooks

(***************************************************************************)
(* Generic helpers on sequences.                                           *)
(***************************************************************************)
Range(s) == {s[i] : i \in DOMAIN s}

Min(a, b) == IF a <= b THEN a ELSE b

NoDuplicates(s) == \A i, j \in DOMAIN s : i /= j => s[i] /= s[j]

\* The elements of a finite set as a list, each once: list(set(xs)).  The
\* order Python gives is immaterial to the search, which reads the list as
\* a set; the model fixes one.
RECURSIVE SetToList(_)
SetToList(S) ==
    IF S = {} THEN <<>>
    ELSE LET x == CHOOSE y \in S : TRUE IN <<x>> \o SetToList(S \ {x})

\* How many of the calls whose outcomes are `oks` fail.
Failed(oks) == Cardinality({i \in DOMAIN oks : ~oks[i]})

(***************************************************************************)
(* Texts.  A text is a sequence of one-character strings; the fixed        *)
(* messages of the program are atoms.                                      *)
(***************************************************************************)
NO_DOCUMENTS ==
    "I don't have access to any documents in this notebook. Please select some books or genres first."
NO_RELEVANT ==
    "I couldn't find any relevant information in the selected documents to answer your question. Please try rephrasing or ask about a different topic."
APOLOGY ==
    "I apologize, but I encountered an error while processing your request. Please try again."

NL == "\n"
BULLET == "U+2022"
Whitespace == {" ", NL}
Bullets == {"-", BULLET}

EmptyText == <<>>

(***************************************************************************)
(* The library the chat turns run against: three ingested books, the first *)
(* with more chunks than a search returns.                                 *)
(***************************************************************************)
Genres == {"history", "science", "philosophy"}

LibraryBooks ==
    [b \in {"b1", "b2", "b3"} |->
        [id |-> b,
         title |-> CASE b = "b1" -> "Title1" [] b = "b2" -> "Title2" [] OTHER -> "Title3",
         author |-> CASE b = "b1" -> "Author1" [] b = "b2" -> "Author2" [] OTHER -> "Author3",
         genre |-> IF b = "b3" THEN "science" ELSE "history"]]

LibraryChunks ==
    {[id |-> i,
      book_id |-> IF i <= 6 THEN "b1" ELSE IF i = 7 THEN "b2" ELSE "b3",
      content |-> <<"c", IF i % 2 = 0 THEN "e" ELSE "o">>,
      page_start |-> IF i <= 6 THEN (i + 1) \div 2 ELSE 1,
      page_end |-> IF i <= 6 THEN (i + 1) \div 2 ELSE 1,
      chunk_index |-> IF i <= 6 THEN i - 1 ELSE 0] : i \in 1..8}

(***************************************************************************)
(* Embedding provider: a query's vector, and the vectors a random fallback *)
(* can be.  Similarity of a chunk's stored embedding to a query vector.    *)
(***************************************************************************)
\* The vectors a random fallback may be.
RandomVecs == {"r1", "r2"}

\* The question of the t-th turn, each turn asking its own.
Question(t) == CASE t = 1 -> "q1" [] t = 2 -> "q2" [] t = 3 -> "q3" [] OTHER -> "q4"

Embed(text) == IF text \in {"q1", "q3"} THEN "v1" ELSE "v2"

Similarity(qv, chunk) ==
    CASE qv = "v1" -> 10 - chunk.id
      [] qv = "v2" -> chunk.id
      [] qv = "r1" -> IF chunk.id = 2 THEN 3 ELSE chunk.id
      [] OTHER -> (chunk.id * 3) % 10

(***************************************************************************)
(* SupabaseService: the reads.  `ok` is whether the store call succeeds;   *)
(* a failed read is logged and converted to the empty result.  An absent   *)
(* row is the empty sequence, a present one a one-element sequence.        *)
(***************************************************************************)
get_notebook_by_id(nbs, notebook_id, user_id, ok) ==
    IF ok /\ notebook_id \in DOMAIN nbs
          /\ (user_id /= "" => nbs[notebook_id].user_id = user_id)
    THEN <<nbs[notebook_id]>>
    ELSE <<>>

get_books_by_genre(bks, genre, ok) ==
    IF ok THEN {bks[b] : b \in {x \in DOMAIN bks : bks[x].genre = genre}} ELSE {}

get_books_by_ids(bks, book_ids, ok) ==
    IF book_ids = {} THEN {}
    ELSE IF ok THEN {bks[b] : b \in book_ids \cap DOMAIN bks} ELSE {}

(***************************************************************************)
(* The store's match_documents function: the match_count most similar      *)
(* chunks among those of the given books, most similar first.  Chunks of   *)
(* equal similarity come in either order.  The result is the set of the    *)
(* sequences the store may return.                                         *)
(***************************************************************************)
RECURSIVE RankedMatches(_, _, _)
RankedMatches(qv, S, k) ==
    IF k = 0 \/ S = {} THEN {<<>>}
    ELSE UNION {{<<[c EXCEPT !.similarity = Similarity(qv, c)]>> \o r :
                    r \in RankedMatches(qv, S \ {c}, k - 1)} :
                c \in {x \in S : \A y \in S : Similarity(qv, y) <= Similarity(qv, x)}}

match_documents(cks, query_embedding, match_count, book_ids) ==
    RankedMatches(query_embedding,
                  {[id |-> x.id, book_id |-> x.book_id, content |-> x.content,
                    page_start |-> x.page_start, page_end |-> x.page_end,
                    chunk_index |-> x.chunk_index, similarity |-> 0] :
                   x \in {y \in cks : y.book_id \in Range(book_ids)}},
                  match_count)

\* A search that ignores the candidate books.
search_chunks_vector_unscoped(cks, query_embedding, book_ids, top_k, ok) ==
    IF ok THEN match_documents(cks, query_embedding, top_k,
                               SetToList({c.book_id : c \in cks}))
    ELSE {<<>>}

search_chunks_vector(cks, query_embedding, book_ids, top_k, ok) ==
    IF ok THEN match_documents(cks, query_embedding, top_k, book_ids) ELSE {<<>>}

(***************************************************************************)
(* RAGService.  `ok` is whether the provider call succeeds, `content` the  *)
(* text the LLM returns when it does.                                      *)
(***************************************************************************)
\* The number of the components of a vector: the random fallback is made
\* with FallbackDim, which is also the dimension of the embedding model.
Dimension(vec) ==
    IF vec \in RandomVecs \cup {"v1", "v2"} THEN FallbackDim ELSE 0

\* An embedding step that answers a failure of the provider with no vector.
generate_query_embedding_none(query, ok) ==
    IF ok THEN {Embed(query)} ELSE {"none"}

\* The vectors _generate_query_embedding may return: the query's
\* embedding, or any vector when the provider fails (np.random.rand).
generate_query_embedding(query, ok) ==
    IF ok THEN {Embed(query)} ELSE RandomVecs

generate_response(query, ok, content) ==
    [response |-> IF ok THEN content ELSE APOLOGY]

\* An update that keeps the prior summary in front of the new one.
update_memory_summary_append(current_summary, new_conversation, ok, content) ==
    IF ok THEN current_summary \o content ELSE current_summary

update_memory_summary(current_summary, new_conversation, ok, content) ==
    IF ok THEN content ELSE current_summary

\* The prompt update_memory_summary sends: the prior summary and the pair.
SummaryPrompt(current_summary, new_conversation) ==
    [current_summary |-> current_summary,
     question |-> new_conversation.question,
     answer |-> new_conversation.answer]

\* str.split('\n')
RECURSIVE SplitLines(_)
SplitLines(text) ==
    IF \A i \in DOMAIN text : text[i] /= NL THEN <<text>>
    ELSE LET i == CHOOSE j \in DOMAIN text :
                      text[j] = NL /\ \A k \in 1..(j - 1) : text[k] /= NL
         IN <<SubSeq(text, 1, i - 1)>> \o SplitLines(SubSeq(text, i + 1, Len(text)))

\* str.strip()
RECURSIVE Strip(_)
Strip(line) ==
    IF line = <<>> THEN line
    ELSE IF line[1] \in Whitespace THEN Strip(Tail(line))
    ELSE IF line[Len(line)] \in Whitespace THEN Strip(SubSeq(line, 1, Len(line) - 1))
    ELSE line

StartsWith(line, ch) == Len(line) >= 1 /\ line[1] = ch

StripAll(lines) == [i \in DOMAIN lines |-> Strip(lines[i])]

IsFactLine(line) == StartsWith(Strip(line), "-") \/ StartsWith(Strip(line), BULLET)

\* An extraction that returns every bullet line.
extract_key_facts_untruncated(conversation, ok, content) ==
    IF ok THEN StripAll(SelectSeq(SplitLines(content), IsFactLine)) ELSE <<>>

extract_key_facts(conversation, ok, content) ==
    IF ok
    THEN LET facts == StripAll(SelectSeq(SplitLines(content), IsFactLine))
         IN SubSeq(facts, 1, Min(MaxFacts, Len(facts)))
    ELSE <<>>

(***************************************************************************)
(* What the LLM may answer.                                                *)
(***************************************************************************)
Answers == {"answer1"}

\* The summary the LLM writes in the t-th turn, each turn its own.
SummaryOutput(t) ==
    CASE t = 1 -> <<"s1">> [] t = 2 -> <<"s2">> [] t = 3 -> <<"s3">> [] OTHER -> <<"s4">>

\* The key facts the LLM lists in the t-th turn: six bullet lines, or a
\* heading, two bullet lines with blanks around them and a plain line.
FactOutput(t) ==
    IF t % 2 = 1
    THEN <<"-", "1", NL, "-", "2", NL, "-", "3", NL, "-", "4", NL, "-", "5", NL, "-", "6">>
    ELSE <<"K", ":", NL, " ", "-", "a", NL, BULLET, "b", " ", NL, "c", "-">>

(***************************************************************************)
(* SupabaseService: the writes.                                            *)
(***************************************************************************)
\* The record create_notebook inserts.  The times of a notebook are counted
\* from its creation: a reading of the clock is the number of the writes of
\* the record before it.
notebook_record(notebook_id, notebook_data) ==
    [id |-> notebook_id,
     user_id |-> notebook_data.user_id,
     name |-> notebook_data.name,
     selected_books |-> notebook_data.selected_books,
     selected_genres |-> notebook_data.selected_genres,
     memory_summary |-> EmptyText,
     key_facts |-> <<>>,
     created_at |-> 0,
     updated_at |-> 0]

\* An update that reaches no row.
update_notebook_memory_dropped(nbs, notebook_id, memory_summary, key_facts, ok) ==
    nbs

\* An update that writes the whole row anew, without its selections.
update_notebook_memory_rewrite(nbs, notebook_id, memory_summary, key_facts, ok) ==
    IF ok /\ notebook_id \in DOMAIN nbs
    THEN [nbs EXCEPT ![notebook_id].memory_summary = memory_summary,
                     ![notebook_id].key_facts = key_facts,
                     ![notebook_id].selected_books = <<>>,
                     ![notebook_id].selected_genres = <<>>,
                     ![notebook_id].updated_at = @ + 1]
    ELSE nbs

\* The notebooks table after update_notebook_memory; a failed call is
\* logged and leaves the table as it was.
update_notebook_memory(nbs, notebook_id, memory_summary, key_facts, ok) ==
    IF ok /\ notebook_id \in DOMAIN nbs
    THEN [nbs EXCEPT ![notebook_id].memory_summary = memory_summary,
                     ![notebook_id].key_facts = key_facts,
                     ![notebook_id].updated_at = @ + 1]
    ELSE nbs

\* The row save_chat_message inserts.
message_record(message_id, chat_data) ==
    [id |-> message_id,
     notebook_id |-> chat_data.notebook_id,
     user_message |-> chat_data.user_message,
     assistant_response |-> chat_data.assistant_response,
     citations |-> chat_data.citations]

\* A save that keeps only the newest message of the log.
save_chat_message_overwrite(msgs, message_id, chat_data) ==
    <<message_record(message_id, chat_data)>>

\* save_chat_message: one row is inserted; no row is updated or deleted.
save_chat_message(msgs, message_id, chat_data) ==
    Append(msgs, message_record(message_id, chat_data))

(***************************************************************************)
(* ChatService helpers.                                                    *)
(***************************************************************************)
Absent == "<absent>"

\* The genre lookups process_chat makes: none unless no book is selected.
LookedUpGenres(notebook) ==
    IF notebook.selected_books = <<>> /\ notebook.selected_genres /= <<>>
    THEN Range(notebook.selected_genres)
    ELSE {}

\* A scope that always adds the books of the selected genres.
ResolveBookIds_union(notebook, bks, failed) ==
    SetToList(Range(notebook.selected_books)
              \cup UNION {{b.id : b \in get_books_by_genre(bks, g, g \notin failed)} :
                          g \in Range(notebook.selected_genres)})

\* The book_ids process_chat ends with; `failed` are the genres whose
\* lookup fails.
ResolveBookIds(notebook, bks, failed) ==
    IF notebook.selected_books = <<>> /\ notebook.selected_genres /= <<>>
    THEN SetToList(UNION {{b.id : b \in get_books_by_genre(bks, g, g \notin failed)} :
                          g \in Range(notebook.selected_genres)})
    ELSE notebook.selected_books

\* A scope check that lets every turn through.
NoBooks_never(book_ids) == FALSE

NoBooks(book_ids) == book_ids = <<>>

\* The chunks with the title and author of their book, where it was found.
AttachBooks(relevant_chunks, books_data) ==
    [i \in DOMAIN relevant_chunks |->
        LET c == relevant_chunks[i]
            found == {b \in books_data : b.id = c.book_id}
            book == CHOOSE b \in found : TRUE
        IN [id |-> c.id, book_id |-> c.book_id, content |-> c.content,
            page_start |-> c.page_start, page_end |-> c.page_end,
            chunk_index |-> c.chunk_index, similarity |-> c.similarity,
            book_title |-> IF found = {} THEN Absent ELSE book.title,
            book_author |-> IF found = {} THEN Absent ELSE book.author]]

\* A preview that cuts a content of exactly the preview length too.
ContentPreview_inclusive(content) ==
    IF Len(content) >= PreviewLen
    THEN SubSeq(content, 1, PreviewLen) \o <<".", ".", ".">>
    ELSE content

ContentPreview(content) ==
    IF Len(content) > PreviewLen
    THEN SubSeq(content, 1, PreviewLen) \o <<".", ".", ".">>
    ELSE content

extract_citations(relevant_chunks) ==
    [i \in DOMAIN relevant_chunks |->
        LET c == relevant_chunks[i]
        IN [book_title |-> IF c.book_title = Absent THEN "Unknown Book" ELSE c.book_title,
            book_author |-> IF c.book_author = Absent THEN "Unknown Author" ELSE c.book_author,
            page_start |-> c.page_start,
            page_end |-> c.page_end,
            content_preview |-> ContentPreview(c.content)]]

ChatResponse(response, citations, memory_summary, key_facts) ==
    [response |-> response, citations |-> citations,
     memory_summary |-> memory_summary, key_facts |-> key_facts]

NoResponse == ChatResponse("", <<>>, EmptyText, <<>>)

NoNotebook ==
    [id |-> 0, user_id |-> "", name |-> "", selected_books |-> <<>>,
     selected_genres |-> <<>>, memory_summary |-> EmptyText, key_facts |-> <<>>,
     created_at |-> 0, updated_at |-> 0]

\* A chat turn that has not started.
IdleTurn ==
    [pc |-> "idle",
     req |-> [notebook_id |-> 0, message |-> "", user_id |-> ""],
     found |-> FALSE, notebook |-> NoNotebook,
     genre_failed |-> {}, book_ids |-> <<>>,
     embed_ok |-> TRUE, query_embedding |-> "",
     relevant_chunks |-> <<>>,
     gen_ok |-> TRUE, rag_response |-> [response |-> ""],
     citations |-> <<>>,
     summary_ok |-> TRUE, summary_out |-> EmptyText,
     summary_prompt |-> [current_summary |-> EmptyText, question |-> "", answer |-> ""],
     new_memory_summary |-> EmptyText,
     facts_ok |-> TRUE, facts_out |-> EmptyText, new_key_facts |-> <<>>,
     saved |-> FALSE, update_ok |-> FALSE, seen_writes |-> 0,
     response |-> NoResponse, http |-> 0]

\* chat_with_rag returning process_chat's response.
Return(tr, response) ==
    [tr EXCEPT !.pc = "done", !.response = response, !.http = 200]

\* A process_chat without its except clause: the error reaches
\* chat_with_rag, which answers with a server error.
HandleException_propagate(tr) ==
    [tr EXCEPT !.pc = "done", !.http = 500]

\* The except clause of process_chat.
HandleException(tr) ==
    Return(tr, ChatResponse(APOLOGY, <<>>, EmptyText, <<>>))

(***************************************************************************)
(* The inputs of the model.                                                *)
(***************************************************************************)
Users == {"u1", "u2"}

Owners == {"u1"}

\* The user_id values of the requests that are not the owner's: another
\* user's, and the empty string, which the request model accepts.
Strangers == (Users \ Owners) \cup {""}

\* The server processes; each runs one chat turn at a time.
Workers == {"w1", "w2"}

NotebookConfigs ==
    {[selected_books |-> <<>>, selected_genres |-> <<>>],
     [selected_books |-> <<>>, selected_genres |-> <<"history">>],
     [selected_books |-> <<"b3">>, selected_genres |-> <<"history">>]}

DirectBookIds == {<<>>, <<"b1">>}

(***************************************************************************)
(* DocumentProcessor.  The text splitter is the recursive character        *)
(* splitter configured in __init__: a text that fits in chunk_size comes   *)
(* back whole, stripped, and no chunk is made of an empty text; a longer   *)
(* text is cut at its separators.  The long texts of the model have no     *)
(* separator but the last one, the empty string, so they are cut between   *)
(* characters: each chunk takes chunk_size characters and the next starts  *)
(* chunk_overlap characters before its end.                                *)
(***************************************************************************)
\* The windows of `size` characters of a text from position `from` on, each
\* starting `overlap` characters before the end of the one before.
RECURSIVE Windows(_, _, _, _)
Windows(text, from, size, overlap) ==
    IF from + size - 1 >= Len(text)
    THEN <<SubSeq(text, from, Len(text))>>
    ELSE <<SubSeq(text, from, from + size - 1)>>
         \o Windows(text, from + size - overlap, size, overlap)

\* A splitter whose chunk size is the overlap.
split_text_overlap_sized(text) ==
    IF Strip(text) = <<>> THEN <<>>
    ELSE IF Len(text) <= ChunkOverlap THEN <<Strip(text)>>
    ELSE Windows(text, 1, ChunkOverlap, ChunkOverlap \div 10)

split_text(text) ==
    IF Strip(text) = <<>> THEN <<>>
    ELSE IF Len(text) <= ChunkSize THEN <<Strip(text)>>
    ELSE Windows(text, 1, ChunkSize, ChunkOverlap)

\* The chunks of one page, the first of them numbered chunk_index.
PageChunks(page, chunk_index) ==
    LET page_text == page[1]
        page_num == page[2]
        page_chunks == split_text(page_text)
    IN [i \in DOMAIN page_chunks |->
           [content |-> page_chunks[i],
            page_start |-> page_num,
            page_end |-> page_num,
            chunk_index |-> chunk_index + (i - 1),
            metadata |-> [page_number |-> page_num,
                          chunk_in_page |-> i - 1,
                          total_chunks_in_page |-> Len(page_chunks)]]]

\* A chunking that numbers the chunks of each page from 0.
RECURSIVE create_chunks_per_page(_)
create_chunks_per_page(pages) ==
    IF pages = <<>> THEN <<>>
    ELSE PageChunks(pages[1], 0) \o create_chunks_per_page(Tail(pages))

\* The loop of create_chunks over the pages left, chunk_index being the
\* number of chunks made so far.
RECURSIVE ChunkPages(_, _)
ChunkPages(pages, chunk_index) ==
    IF pages = <<>> THEN <<>>
    ELSE LET here == PageChunks(pages[1], chunk_index)
         IN here \o ChunkPages(Tail(pages), chunk_index + Len(here))

create_chunks(pages) == ChunkPages(pages, 0)

\* _clean_text: every run of whitespace becomes one space, then the
\* special characters are removed, then the text is stripped.
SpecialChars == {"#", "@"}

RECURSIVE CollapseWhitespace(_)
CollapseWhitespace(text) ==
    IF text = <<>> THEN <<>>
    ELSE IF text[1] \in Whitespace
         THEN IF Len(text) >= 2 /\ text[2] \in Whitespace
              THEN CollapseWhitespace(Tail(text))
              ELSE <<" ">> \o CollapseWhitespace(Tail(text))
         ELSE <<text[1]>> \o CollapseWhitespace(Tail(text))

NotSpecial(ch) == ch \notin SpecialChars

clean_text(text) == Strip(SelectSeq(CollapseWhitespace(text), NotSpecial))

(***************************************************************************)
(* The files an ingestion can be given.  A path is a stem and an           *)
(* extension; Disk has the text of the pages of the files that exist.  The *)
(* file that is not a PDF is of a format the PDF library opens as well.    *)
(***************************************************************************)
APdf == [stem |-> "a", ext |-> ".pdf"]

NotesEpub == [stem |-> "notes", ext |-> ".epub"]

MissingPdf == [stem |-> "missing", ext |-> ".pdf"]

ScanPdf == [stem |-> "scan", ext |-> ".PDF"]

TwoPdf == [stem |-> "two", ext |-> ".pdf"]

FilePaths == {APdf, NotesEpub, MissingPdf, ScanPdf, TwoPdf}

\* a.pdf has four pages, the second and the last without text; two.pdf has
\* two pages of text; scan.PDF has no text.
Disk ==
    [f \in {APdf, NotesEpub, ScanPdf, TwoPdf} |->
        CASE f = APdf -> <<<<"a", "#", "b">>, <<" ", NL>>, <<"c", " ", NL, "d">>, <<>>>>
          [] f = NotesEpub -> <<<<"n">>>>
          [] f = TwoPdf -> <<<<"p", "1">>, <<"p", "2">>>>
          [] OTHER -> <<<<" ">>, <<>>>>]

\* os.path.exists(file_path)
Exists(file_path) == file_path \in DOMAIN Disk

\* str.lower() of an extension
Lower(ext) == IF ext = ".PDF" THEN ".pdf" ELSE ext

\* file_path.lower().endswith('.pdf')
IsPdf(file_path) == Lower(file_path.ext) = ".pdf"

\* extract_text_from_pdf, of a file the library opens: the cleaned text of
\* each page that has text, with the number of the page.
RECURSIVE ExtractPages(_, _)
ExtractPages(raw, page_num) ==
    IF raw = <<>> THEN <<>>
    ELSE LET text == clean_text(raw[1])
         IN (IF Strip(text) /= <<>> THEN <<<<text, page_num + 1>>>> ELSE <<>>)
            \o ExtractPages(Tail(raw), page_num + 1)

extract_text_from_pdf(file_path) == ExtractPages(Disk[file_path], 0)

\* What a call that can raise gives: whether it raised, and its value.
Raised == [raised |-> TRUE, value |-> <<>>]

Value(v) == [raised |-> FALSE, value |-> v]

\* An embedding step that answers a failure of the model with a fallback
\* vector.
generate_embeddings_fallback(cs, ok) ==
    Value([i \in DOMAIN cs |->
              [content |-> cs[i].content, page_start |-> cs[i].page_start,
               page_end |-> cs[i].page_end, chunk_index |-> cs[i].chunk_index,
               metadata |-> cs[i].metadata,
               embedding |-> IF ok THEN "embedding" ELSE "fallback"]])

\* generate_embeddings: a failure of the model is logged and raised again.
generate_embeddings(cs, ok) ==
    IF ok
    THEN Value([i \in DOMAIN cs |->
                   [content |-> cs[i].content, page_start |-> cs[i].page_start,
                    page_end |-> cs[i].page_end, chunk_index |-> cs[i].chunk_index,
                    metadata |-> cs[i].metadata, embedding |-> "embedding"]])
    ELSE Raised

\* process_document: extract_ok is whether the library opens and reads the
\* file, embed_ok whether the embedding model answers.
process_document(file_path, extract_ok, embed_ok) ==
    IF ~extract_ok THEN Raised
    ELSE generate_embeddings(create_chunks(extract_text_from_pdf(file_path)), embed_ok)

(***************************************************************************)
(* SupabaseService: the inserts of the ingestion.  An insert stores its    *)
(* rows and returns them ("ok"), raises and stores nothing ("raise"), or   *)
(* stores nothing and returns no data ("none").  The new ids stand for the *)
(* uuids.                                                                  *)
(***************************************************************************)
InsertOutcomes == {"ok", "none", "raise"}

NewBookIds == <<"n1", "n2", "n3", "n4", "n5", "n6">>

NewBookId(bks) == NewBookIds[Cardinality(DOMAIN bks \ DOMAIN LibraryBooks) + 1]

\* A create_book that returns the record without inserting it.
create_book_unstored(bks, book_data, outcome) ==
    IF outcome = "raise" THEN [raised |-> TRUE, value |-> <<>>, books |-> bks]
    ELSE IF outcome = "none" THEN [raised |-> FALSE, value |-> <<>>, books |-> bks]
    ELSE [raised |-> FALSE,
          value |-> <<[id |-> NewBookId(bks), title |-> book_data.title,
                       author |-> book_data.author, genre |-> book_data.genre,
                       file_path |-> book_data.file_path,
                       total_pages |-> book_data.total_pages]>>,
          books |-> bks]

create_book(bks, book_data, outcome) ==
    IF outcome = "raise" THEN [raised |-> TRUE, value |-> <<>>, books |-> bks]
    ELSE IF outcome = "none" THEN [raised |-> FALSE, value |-> <<>>, books |-> bks]
    ELSE LET book_id == NewBookId(bks)
             book_record == [id |-> book_id, title |-> book_data.title,
                             author |-> book_data.author, genre |-> book_data.genre,
                             file_path |-> book_data.file_path,
                             total_pages |-> book_data.total_pages]
         IN [raised |-> FALSE, value |-> <<book_record>>,
             books |-> [b \in DOMAIN bks \cup {book_id} |->
                           IF b = book_id THEN book_record ELSE bks[b]]]

MaxChunkId(cks) ==
    IF cks = {} THEN 0 ELSE CHOOSE m \in {c.id : c \in cks} : \A c \in cks : c.id <= m

\* SupabaseService.create_chunks
supabase_create_chunks(cks, chunk_list, outcome) ==
    IF outcome = "raise" THEN [raised |-> TRUE, value |-> <<>>, chunks |-> cks]
    ELSE IF outcome = "none" THEN [raised |-> FALSE, value |-> <<>>, chunks |-> cks]
    ELSE LET chunk_records ==
                 [i \in DOMAIN chunk_list |->
                     [id |-> MaxChunkId(cks) + i,
                      book_id |-> chunk_list[i].book_id,
                      content |-> chunk_list[i].content,
                      page_start |-> chunk_list[i].page_start,
                      page_end |-> chunk_list[i].page_end,
                      chunk_index |-> chunk_list[i].chunk_index,
                      embedding |-> chunk_list[i].embedding,
                      metadata |-> chunk_list[i].metadata]]
         IN [raised |-> FALSE, value |-> chunk_records,
             chunks |-> cks \cup Range(chunk_records)]

(***************************************************************************)
(* The ingestion of one document, as the upload endpoint, the batch        *)
(* endpoint and the ingestion script do it.  `o` has the outcomes of the   *)
(* calls: extract_ok, embed_ok, book and store.  Each gives the result     *)
(* record, the store after it, the files process_document was called on,   *)
(* and the calls that were made.                                           *)
(***************************************************************************)
Max(S) == CHOOSE m \in S : \A x \in S : x <= m

ErrorResult(file_path, message) ==
    [file_path |-> file_path, status |-> "error", message |-> message]

SuccessResult(file_path, book, stored_chunks, total_pages) ==
    [file_path |-> file_path, status |-> "success", book_id |-> book.id,
     chunks_created |-> Len(stored_chunks), total_pages |-> total_pages]

Outcome(result, http, bks, cks, invoked, made) ==
    [result |-> result, http |-> http, books |-> bks, chunks |-> cks,
     invoked |-> invoked, made |-> made]

\* The book record is created and the chunks, given its id, are stored.
StoreDocument(doc, cs, o, bks, cks) ==
    LET book_data == [title |-> doc.title, author |-> doc.author,
                      genre |-> doc.genre, file_path |-> doc.file_path,
                      total_pages |-> Max({cs[i].page_end : i \in DOMAIN cs})]
        book == create_book(bks, book_data, o.book)
        with_book == [i \in DOMAIN cs |->
                         [content |-> cs[i].content, page_start |-> cs[i].page_start,
                          page_end |-> cs[i].page_end,
                          chunk_index |-> cs[i].chunk_index,
                          metadata |-> cs[i].metadata, embedding |-> cs[i].embedding,
                          book_id |-> book.value[1].id]]
    IN IF book.raised \/ book.value = <<>>
       THEN [book |-> book, total_pages |-> book_data.total_pages,
             stored |-> [raised |-> FALSE, value |-> <<>>, chunks |-> cks]]
       ELSE [book |-> book, total_pages |-> book_data.total_pages,
             stored |-> supabase_create_chunks(cks, with_book, o.store)]

\* The calls made up to process_document's return.
ProcessCalls(o) == IF o.extract_ok THEN {"extract", "embed"} ELSE {"extract"}

\* POST /api/documents/ingest, the uploaded file being stored under its
\* own name in the upload directory.
ingest_document(doc, o, bks, cks) ==
    LET file_path == doc.file_path
        pd == process_document(file_path, o.extract_ok, o.embed_ok)
        sd == StoreDocument(doc, pd.value, o, bks, cks)
        failed(detail, b, c, made) ==
            Outcome(ErrorResult(file_path, detail), 500, b, c, {file_path}, made)
    IN IF ~IsPdf(file_path)
       THEN Outcome(ErrorResult(file_path, "Only PDF files are supported"), 400,
                    bks, cks, {}, {})
       ELSE IF pd.raised
       THEN failed("Error ingesting document", bks, cks, ProcessCalls(o))
       ELSE IF pd.value = <<>>
       THEN failed("Failed to process document", bks, cks, ProcessCalls(o))
       ELSE IF sd.book.raised
       THEN failed("Error ingesting document", bks, cks, ProcessCalls(o) \cup {"book"})
       ELSE IF sd.book.value = <<>>
       THEN failed("Failed to create book record", bks, cks,
                   ProcessCalls(o) \cup {"book"})
       ELSE IF sd.stored.raised
       THEN failed("Error ingesting document", sd.book.books, sd.stored.chunks,
                   ProcessCalls(o) \cup {"book", "store"})
       ELSE IF sd.stored.value = <<>>
       THEN failed("Failed to store document chunks", sd.book.books,
                   sd.stored.chunks, ProcessCalls(o) \cup {"book", "store"})
       ELSE Outcome(SuccessResult(file_path, sd.book.value[1], sd.stored.value,
                                  sd.total_pages),
                    200, sd.book.books, sd.stored.chunks, {file_path},
                    ProcessCalls(o) \cup {"book", "store"})

\* POST /api/documents/ingest-batch: the body of the loop, for one entry.
ingest_batch_entry(doc, o, bks, cks) ==
    LET file_path == doc.file_path
        pd == process_document(file_path, o.extract_ok, o.embed_ok)
        sd == StoreDocument(doc, pd.value, o, bks, cks)
        failed(message, b, c, made) ==
            Outcome(ErrorResult(file_path, message), 0, b, c, {file_path}, made)
    IN IF ~Exists(file_path)
       THEN Outcome(ErrorResult(file_path, "File not found"), 0, bks, cks, {}, {})
       ELSE IF pd.raised
       THEN failed("exception", bks, cks, ProcessCalls(o))
       ELSE IF pd.value = <<>>
       THEN failed("Failed to process document", bks, cks, ProcessCalls(o))
       ELSE IF sd.book.raised
       THEN failed("exception", bks, cks, ProcessCalls(o) \cup {"book"})
       ELSE IF sd.book.value = <<>>
       THEN failed("Failed to create book record", bks, cks,
                   ProcessCalls(o) \cup {"book"})
       ELSE IF sd.stored.raised
       THEN failed("exception", sd.book.books, sd.stored.chunks,
                   ProcessCalls(o) \cup {"book", "store"})
       ELSE Outcome(SuccessResult(file_path, sd.book.value[1], sd.stored.value,
                                  sd.total_pages),
                    0, sd.book.books, sd.stored.chunks, {file_path},
                    ProcessCalls(o) \cup {"book", "store"})

\* DataIngestionPipeline.ingest_single_document
ingest_single_document(doc, o, bks, cks) ==
    LET file_path == doc.file_path
        pd == process_document(file_path, o.extract_ok, o.embed_ok)
        sd == StoreDocument(doc, pd.value, o, bks, cks)
        failed(error, b, c, made) ==
            Outcome(ErrorResult(file_path, error), 0, b, c, {file_path}, made)
    IN IF ~Exists(file_path)
       THEN Outcome(ErrorResult(file_path, "File not found"), 0, bks, cks, {}, {})
       ELSE IF ~IsPdf(file_path)
       THEN Outcome(ErrorResult(file_path, "File is not a PDF"), 0, bks, cks, {}, {})
       ELSE IF pd.raised
       THEN failed("exception", bks, cks, ProcessCalls(o))
       ELSE IF pd.value = <<>>
       THEN failed("No chunks generated from document", bks, cks, ProcessCalls(o))
       ELSE IF sd.book.raised
       THEN failed("exception", bks, cks, ProcessCalls(o) \cup {"book"})
       ELSE IF sd.book.value = <<>>
       THEN failed("Failed to create book record", bks, cks,
                   ProcessCalls(o) \cup {"book"})
       ELSE IF sd.stored.raised
       THEN failed("exception", sd.book.books, sd.stored.chunks,
                   ProcessCalls(o) \cup {"book", "store"})
       ELSE IF sd.stored.value = <<>>
       THEN failed("Failed to store document chunks", sd.book.books,
                   sd.stored.chunks, ProcessCalls(o) \cup {"book", "store"})
       ELSE Outcome(SuccessResult(file_path, sd.book.value[1], sd.stored.value,
                                  sd.total_pages),
                    0, sd.book.books, sd.stored.chunks, {file_path},
                    ProcessCalls(o) \cup {"book", "store"})

\* No ingestion request is running; `used` counts the documents of the
\* requests that ended.
NoIngest == [path |-> "none", used |-> 0]

\* No function has been applied.
NoProbe == [op |-> "none"]

(***************************************************************************)
(* The state after construction, with the library ingested.  last_write    *)
(* keeps, for each notebook, what the latest write of its memory stored    *)
(* and from what; failures counts the failed calls so far.                 *)
(***************************************************************************)
InitStore ==
    /\ books = LibraryBooks
    /\ chunks = LibraryChunks
    /\ notebooks = <<>>
    /\ chat_messages = <<>>
    /\ turns = [t \in Turns |-> IdleTurn]
    /\ rpc_calls = {}
    /\ last_write = [n \in NotebookIds |-> <<>>]
    /\ failures = 0

Init ==
    /\ InitStore
    /\ ingest = NoIngest
    /\ processed = {}
    /\ probe = NoProbe

\* The number of writes of a notebook's memory so far.
WriteCount(n) == IF last_write[n] = <<>> THEN 0 ELSE last_write[n][1].seq

(***************************************************************************)
(* ChatService.create_notebook_session / SupabaseService.create_notebook.  *)
(* The new id stands for the uuid.                                         *)
(***************************************************************************)
CreateNotebook ==
    /\ Len(notebooks) < MaxNotebooks
    /\ \E user \in Owners, cfg \in NotebookConfigs :
          notebooks' = Append(notebooks,
              notebook_record(Len(notebooks) + 1,
                  [user_id |-> user, name |-> "notebook",
                   selected_books |-> cfg.selected_books,
                   selected_genres |-> cfg.selected_genres]))
    /\ UNCHANGED <<ingest, processed, probe>>
    /\ UNCHANGED <<books, chunks, chat_messages, turns, rpc_calls, last_write, failures>>

(***************************************************************************)
(* process_chat, lines 18-70: the notebook is read and the candidate books *)
(* are resolved; a notebook without books is answered at once.  Otherwise  *)
(* the query is embedded, the store is searched and the books of the       *)
(* matches are looked up; a turn without a match is answered at once.      *)
(***************************************************************************)
\* A retrieval that goes on to the answer with no match.
Retrieve_always_generate(tr, embed_ok, qv, matches, books_ok) ==
    [tr EXCEPT !.pc = "generate", !.embed_ok = embed_ok, !.query_embedding = qv,
               !.relevant_chunks = matches]

\* Lines 42-70, for a turn tr that has its book_ids.
Retrieve(tr, embed_ok, qv, matches, books_ok) ==
    LET unique_book_ids == {matches[i].book_id : i \in DOMAIN matches}
        books_data == get_books_by_ids(books, unique_book_ids, books_ok)
        tr1 == [tr EXCEPT !.embed_ok = embed_ok, !.query_embedding = qv,
                          !.relevant_chunks = AttachBooks(matches, books_data)]
    IN IF matches = <<>>
       THEN Return(tr1, ChatResponse(NO_RELEVANT, <<>>,
                                     tr.notebook.memory_summary,
                                     tr.notebook.key_facts))
       ELSE [tr1 EXCEPT !.pc = "generate"]

\* The turn of a request whose user_id is one of `users`.
BeginAs(t, users) ==
    /\ turns[t].pc = "idle"
    /\ t > 1 => turns[t - 1].pc /= "idle"
    /\ Cardinality({u \in Turns : turns[u].pc \notin {"idle", "finished"}})
          < Cardinality(Workers)
    /\ \E nb \in NotebookIds, user \in users, ok \in BOOLEAN :
          LET req == [notebook_id |-> nb, message |-> Question(t), user_id |-> user]
              got == get_notebook_by_id(notebooks, nb, user, ok)
              tr0 == [turns[t] EXCEPT !.req = req, !.seen_writes = WriteCount(nb)]
          IN IF got = <<>>
             THEN /\ failures + Failed(<<ok>>) <= MaxFailures
                  /\ failures' = failures + Failed(<<ok>>)
                  /\ turns' = [turns EXCEPT ![t] = HandleException(tr0)]
                  /\ rpc_calls' = rpc_calls
             ELSE \E failed \in SUBSET LookedUpGenres(got[1]) :
                     LET ids == ResolveBookIds(got[1], books, failed)
                         tr1 == [tr0 EXCEPT !.found = TRUE, !.notebook = got[1],
                                            !.genre_failed = failed, !.book_ids = ids]
                     IN IF NoBooks(ids)
                        THEN /\ failures + Cardinality(failed) <= MaxFailures
                             /\ failures' = failures + Cardinality(failed)
                             /\ turns' = [turns EXCEPT ![t] =
                                   Return(tr1, ChatResponse(NO_DOCUMENTS, <<>>,
                                                            got[1].memory_summary,
                                                            got[1].key_facts))]
                             /\ rpc_calls' = rpc_calls
                        ELSE \E embed_ok \in BOOLEAN, search_ok \in BOOLEAN,
                                books_ok \in BOOLEAN :
                             \E qv \in generate_query_embedding(req.message, embed_ok) :
                             \E matches \in search_chunks_vector(chunks, qv, ids,
                                                                 TopK, search_ok) :
                                LET n == Cardinality(failed)
                                         + Failed(<<embed_ok, search_ok, books_ok>>)
                                IN /\ matches = <<>> => books_ok
                                   /\ failures + n <= MaxFailures
                                   /\ failures' = failures + n
                                   /\ turns' = [turns EXCEPT ![t] =
                                         Retrieve(tr1, embed_ok, qv, matches, books_ok)]
                                   /\ rpc_calls' = rpc_calls \cup {ids}
    /\ UNCHANGED <<ingest, processed, probe>>
    /\ UNCHANGED <<books, chunks, notebooks, chat_messages, last_write>>

Begin(t) == BeginAs(t, Users)

(***************************************************************************)
(* process_chat, lines 72-99: the answer is generated, the citations are   *)
(* extracted, the summary is updated and the key facts are extracted.      *)
(***************************************************************************)
Generate(t) ==
    /\ turns[t].pc = "generate"
    /\ \E gen_ok \in BOOLEAN, summary_ok \in BOOLEAN, facts_ok \in BOOLEAN :
       \E answer \in Answers :
          LET tr == turns[t]
              facts == FactOutput(t)
              summary == SummaryOutput(t)
              rag_response == generate_response(tr.req.message, gen_ok, answer)
              conversation == [question |-> tr.req.message,
                               answer |-> rag_response.response]
          IN /\ ~gen_ok => answer = CHOOSE x \in Answers : TRUE
             /\ failures + Failed(<<gen_ok, summary_ok, facts_ok>>) <= MaxFailures
             /\ failures' = failures + Failed(<<gen_ok, summary_ok, facts_ok>>)
             /\ turns' = [turns EXCEPT ![t] =
                   [tr EXCEPT
                      !.pc = "save",
                      !.gen_ok = gen_ok,
                      !.rag_response = rag_response,
                      !.citations = extract_citations(tr.relevant_chunks),
                      !.summary_ok = summary_ok,
                      !.summary_out = IF summary_ok THEN summary ELSE EmptyText,
                      !.summary_prompt =
                          SummaryPrompt(tr.notebook.memory_summary, conversation),
                      !.new_memory_summary =
                          update_memory_summary(tr.notebook.memory_summary,
                                                conversation, summary_ok, summary),
                      !.facts_ok = facts_ok,
                      !.facts_out = IF facts_ok THEN facts ELSE EmptyText,
                      !.new_key_facts =
                          extract_key_facts(conversation, facts_ok, facts)]]
    /\ UNCHANGED <<ingest, processed, probe>>
    /\ UNCHANGED <<books, chunks, notebooks, chat_messages, rpc_calls, last_write>>

(***************************************************************************)
(* process_chat, lines 101-107: the chat message is saved.  A failed       *)
(* insert raises, and the except clause answers.  The id stands for the    *)
(* uuid.                                                                   *)
(***************************************************************************)
\* A turn that goes on to the notebook update when the save fails.
Save_unguarded(t) ==
    /\ turns[t].pc = "save"
    /\ \E ok \in BOOLEAN :
       /\ failures + Failed(<<ok>>) <= MaxFailures
       /\ failures' = failures + Failed(<<ok>>)
       /\ chat_messages' =
             IF ok
             THEN save_chat_message(chat_messages, t,
                      [notebook_id |-> turns[t].req.notebook_id,
                       user_message |-> turns[t].req.message,
                       assistant_response |-> turns[t].rag_response.response,
                       citations |-> turns[t].citations])
             ELSE chat_messages
       /\ turns' = [turns EXCEPT ![t].pc = "update", ![t].saved = ok]
    /\ UNCHANGED <<ingest, processed, probe>>
    /\ UNCHANGED <<books, chunks, notebooks, rpc_calls, last_write>>

Save(t) ==
    /\ turns[t].pc = "save"
    /\ \E ok \in BOOLEAN :
       /\ failures + Failed(<<ok>>) <= MaxFailures
       /\ failures' = failures + Failed(<<ok>>)
       /\ IF ok
          THEN /\ chat_messages' = save_chat_message(chat_messages, t,
                      [notebook_id |-> turns[t].req.notebook_id,
                       user_message |-> turns[t].req.message,
                       assistant_response |-> turns[t].rag_response.response,
                       citations |-> turns[t].citations])
               /\ turns' = [turns EXCEPT ![t].pc = "update", ![t].saved = TRUE]
          ELSE /\ chat_messages' = chat_messages
               /\ turns' = [turns EXCEPT ![t] = HandleException(turns[t])]
    /\ UNCHANGED <<ingest, processed, probe>>
    /\ UNCHANGED <<books, chunks, notebooks, rpc_calls, last_write>>

\* What a write of a notebook's memory by turn tr leaves in last_write:
\* what it stored, from what, and the write before it (raced: that write
\* came after tr read the notebook).
WriteRecord(t, tr, prev) ==
    [turn |-> t,
     seq |-> IF prev = <<>> THEN 1 ELSE prev[1].seq + 1,
     prior |-> tr.notebook.memory_summary,
     raced |-> IF prev = <<>> THEN FALSE ELSE prev[1].seq > tr.seen_writes,
     clobbered |-> IF prev = <<>> THEN 0 ELSE prev[1].turn,
     clobbered_prior |-> IF prev = <<>> THEN EmptyText ELSE prev[1].prior,
     clobbered_summary |-> IF prev = <<>> THEN EmptyText ELSE prev[1].memory_summary,
     question |-> tr.req.message,
     answer |-> tr.rag_response.response,
     gen_ok |-> tr.gen_ok,
     summary_ok |-> tr.summary_ok,
     summary_out |-> tr.summary_out,
     summary_prompt |-> tr.summary_prompt,
     memory_summary |-> tr.new_memory_summary,
     facts_ok |-> tr.facts_ok,
     facts_out |-> tr.facts_out,
     key_facts |-> tr.new_key_facts]

(***************************************************************************)
(* process_chat, lines 109-121: the notebook's memory is written and the   *)
(* response is returned.                                                   *)
(***************************************************************************)
Update(t) ==
    /\ turns[t].pc = "update"
    /\ \E ok \in BOOLEAN :
          LET tr == turns[t]
              nb == tr.req.notebook_id
          IN /\ failures + Failed(<<ok>>) <= MaxFailures
             /\ failures' = failures + Failed(<<ok>>)
             /\ notebooks' = update_notebook_memory(notebooks, nb,
                                 tr.new_memory_summary, tr.new_key_facts, ok)
             /\ last_write' =
                   IF ok
                   THEN [last_write EXCEPT ![nb] =
                            <<WriteRecord(t, tr, last_write[nb])>>]
                   ELSE last_write
             /\ turns' = [turns EXCEPT ![t] =
                   Return([tr EXCEPT !.update_ok = ok],
                          ChatResponse(tr.rag_response.response, tr.citations,
                                       tr.new_memory_summary, tr.new_key_facts))]
    /\ UNCHANGED <<ingest, processed, probe>>
    /\ UNCHANGED <<books, chunks, chat_messages, rpc_calls>>

(***************************************************************************)
(* The request of a returned turn ends; nothing of it is kept.             *)
(***************************************************************************)
Finish(t) ==
    /\ turns[t].pc = "done"
    /\ turns' = [turns EXCEPT ![t] = [IdleTurn EXCEPT !.pc = "finished"]]
    /\ UNCHANGED <<ingest, processed, probe>>
    /\ UNCHANGED <<books, chunks, notebooks, chat_messages, rpc_calls, last_write, failures>>

(***************************************************************************)
(* SupabaseService.search_chunks_vector called by another client of the    *)
(* service.                                                                *)
(***************************************************************************)
DirectSearch ==
    /\ \E book_ids \in DirectBookIds :
          rpc_calls' = rpc_calls \cup {book_ids}
    /\ UNCHANGED <<ingest, processed, probe>>
    /\ UNCHANGED <<books, chunks, notebooks, chat_messages, turns, last_write, failures>>

Next ==
    \/ CreateNotebook
    \/ \E t \in Turns : Begin(t)
    \/ \E t \in Turns : Generate(t)
    \/ \E t \in Turns : Save(t)
    \/ \E t \in Turns : Update(t)
    \/ \E t \in Turns : Finish(t)

Spec == Init /\ [][Next]_vars

\* The chat turns against a library one of whose books has no chunk: the
\* book was stored and its chunks were not.
InitSparse ==
    /\ books = LibraryBooks
    /\ chunks = {c \in LibraryChunks : c.book_id /= "b3"}
    /\ notebooks = <<>>
    /\ chat_messages = <<>>
    /\ turns = [t \in Turns |-> IdleTurn]
    /\ rpc_calls = {}
    /\ last_write = [n \in NotebookIds |-> <<>>]
    /\ failures = 0
    /\ ingest = NoIngest
    /\ processed = {}
    /\ probe = NoProbe

NextSparse == Next

SpecSparse == InitSparse /\ [][NextSparse]_vars

\* The chat turns of requests that do not carry the user_id of the
\* notebook's owner.
BeginStranger(t) == BeginAs(t, Strangers)

NextStrangers ==
    \/ CreateNotebook
    \/ \E t \in Turns : BeginStranger(t)
    \/ \E t \in Turns : Generate(t)
    \/ \E t \in Turns : Save(t)
    \/ \E t \in Turns : Update(t)
    \/ \E t \in Turns : Finish(t)

SpecStrangers == Init /\ [][NextStrangers]_vars

NextDirect == Next \/ DirectSearch

SpecDirect == Init /\ [][NextDirect]_vars

(***************************************************************************)
(* The ingestion requests.  A request comes by one of four paths: the      *)
(* upload endpoint, the batch endpoint, the ingestion script with one file *)
(* and the script with a list of files.  Its documents are ingested one    *)
(* after the other, each by one step, the script's batch sleeping after    *)
(* each; then the request answers and ends.                                *)
(* MaxDocs bounds the documents of all the requests together.  trace keeps *)
(* for each document the calls that failed and the ids of the books and of *)
(* the chunks its ingestion stored.                                        *)
(***************************************************************************)
IngestPaths == {"upload", "api_batch", "cli_single", "cli_batch"}

DocRequest(file_path) ==
    [file_path |-> file_path, title |-> file_path.stem,
     author |-> "Unknown Author", genre |-> "other"]

\* The lists of documents a request by `path` can have, of at most n.
DocLists(path, n) ==
    CASE path = "upload" ->
            {<<DocRequest(f)>> : f \in {g \in FilePaths : Exists(g)}}
      [] path = "cli_single" ->
            {<<DocRequest(f)>> : f \in FilePaths}
      [] OTHER ->
            UNION {{[i \in 1..k |-> DocRequest(fs[i])] : fs \in [1..k -> FilePaths]} :
                   k \in 1..n}

CallOutcomes ==
    [extract_ok : BOOLEAN, embed_ok : BOOLEAN,
     book : InsertOutcomes, store : InsertOutcomes]

\* The calls among `made` that fail under o.
FailedCalls(o, made) ==
    {c \in made : \/ c = "extract" /\ ~o.extract_ok
                  \/ c = "embed" /\ ~o.embed_ok
                  \/ c = "book" /\ o.book /= "ok"
                  \/ c = "store" /\ o.store /= "ok"}

\* o says nothing of a call that was not made.
Canonical(o, made) ==
    FailedCalls(o, {"extract", "embed", "book", "store"} \ made) = {}

\* A batch that keeps the results of the successes only.
record_result_successes(results, result) ==
    IF result.status = "error" THEN results ELSE Append(results, result)

\* results.append(result)
record_result(results, result) == Append(results, result)

IngestOne(path, doc, o, bks, cks) ==
    CASE path = "upload" -> ingest_document(doc, o, bks, cks)
      [] path = "api_batch" -> ingest_batch_entry(doc, o, bks, cks)
      [] OTHER -> ingest_single_document(doc, o, bks, cks)

Statuses(results, status) == {i \in DOMAIN results : results[i].status = status}

InitIngest ==
    /\ InitStore
    /\ ingest = NoIngest
    /\ processed = {}
    /\ probe = NoProbe

StartIngest ==
    /\ ingest.path = "none"
    /\ ingest.used < MaxDocs
    /\ \E path \in IngestPaths :
       \E docs \in DocLists(path, MaxDocs - ingest.used) :
          ingest' = [path |-> path, docs |-> docs, pos |-> 1, results |-> <<>>,
                     stage |-> "running", used |-> ingest.used, http |-> 0,
                     successful |-> 0, failed |-> 0, pauses |-> 0, trace |-> <<>>]
    /\ UNCHANGED <<processed, probe>>
    /\ UNCHANGED <<books, chunks, notebooks, chat_messages, turns, rpc_calls,
                   last_write, failures>>

IngestEntry ==
    /\ ingest.path /= "none"
    /\ ingest.stage = "running"
    /\ ingest.pos <= Len(ingest.docs)
    /\ \E o \in CallOutcomes :
          LET doc == ingest.docs[ingest.pos]
              out == IngestOne(ingest.path, doc, o, books, chunks)
              n == Cardinality(FailedCalls(o, out.made))
          IN /\ Canonical(o, out.made)
             /\ failures + n <= MaxFailures
             /\ failures' = failures + n
             /\ books' = out.books
             /\ chunks' = out.chunks
             /\ processed' = processed \cup out.invoked
             /\ ingest' = [ingest EXCEPT
                              !.pos = @ + 1,
                              !.results = record_result(@, out.result),
                              !.http = out.http,
                              !.stage = IF ingest.path = "cli_batch"
                                        THEN "sleeping" ELSE "running",
                              !.trace = Append(@,
                                  [failed |-> FailedCalls(o, out.made),
                                   books |-> DOMAIN out.books \ DOMAIN books,
                                   chunks |-> {c.id : c \in out.chunks \ chunks}])]
    /\ UNCHANGED probe
    /\ UNCHANGED <<notebooks, chat_messages, turns, rpc_calls, last_write>>

\* The script's batch loop sleeps after each document: asyncio.sleep(1).
Pause ==
    /\ ingest.path /= "none"
    /\ ingest.stage = "sleeping"
    /\ ingest' = [ingest EXCEPT !.stage = "running", !.pauses = @ + 1]
    /\ UNCHANGED <<processed, probe>>
    /\ UNCHANGED <<books, chunks, notebooks, chat_messages, turns, rpc_calls,
                   last_write, failures>>

\* The request answers: the batch endpoint with the results and their
\* counts, the script with the results, the upload endpoint with the status
\* of its document.
Respond ==
    /\ ingest.path /= "none"
    /\ ingest.stage = "running"
    /\ ingest.pos > Len(ingest.docs)
    /\ ingest' = [ingest EXCEPT
                     !.stage = "done",
                     !.http = IF ingest.path = "api_batch" THEN 200 ELSE @,
                     !.successful = Cardinality(Statuses(ingest.results, "success")),
                     !.failed = Cardinality(Statuses(ingest.results, "error"))]
    /\ UNCHANGED <<processed, probe>>
    /\ UNCHANGED <<books, chunks, notebooks, chat_messages, turns, rpc_calls,
                   last_write, failures>>

EndIngest ==
    /\ ingest.path /= "none"
    /\ ingest.stage = "done"
    /\ ingest' = [path |-> "none", used |-> ingest.used + Len(ingest.docs)]
    /\ UNCHANGED <<processed, probe>>
    /\ UNCHANGED <<books, chunks, notebooks, chat_messages, turns, rpc_calls,
                   last_write, failures>>

NextIngest ==
    \/ StartIngest
    \/ IngestEntry
    \/ Pause
    \/ Respond
    \/ EndIngest

SpecIngest == InitIngest /\ [][NextIngest]_vars

(***************************************************************************)
(* The conversation history of the answer prompt.  The chat messages are   *)
(* read in the order of their timestamps, which is the order they were     *)
(* saved in.  A saved turn of the model asks <<"q", k>> and is answered    *)
(* <<"a", k>>, k being its place in the log.                               *)
(***************************************************************************)
\* The first n elements of a sequence: limit(n), s[:n].
FirstN(seq, n) == SubSeq(seq, 1, Min(n, Len(seq)))

\* The last n elements of a sequence: s[-n:].
LastN(seq, n) == SubSeq(seq, Len(seq) - Min(n, Len(seq)) + 1, Len(seq))

OfNotebook(msgs, notebook_id) ==
    LET Mine(m) == m.notebook_id = notebook_id IN SelectSeq(msgs, Mine)

get_chat_history(msgs, notebook_id, limit, ok) ==
    IF ok THEN FirstN(OfNotebook(msgs, notebook_id), limit) ELSE <<>>

format_chat_history(chat_history) ==
    [i \in 1..(2 * Len(chat_history)) |->
        IF i % 2 = 1
        THEN [role |-> "user", content |-> chat_history[(i + 1) \div 2].user_message]
        ELSE [role |-> "assistant",
              content |-> chat_history[i \div 2].assistant_response]]

SystemMessage(content) == [type |-> "system", content |-> content]

HumanMessage(content) == [type |-> "human", content |-> content]

\* The messages generate_response sends to the LLM.
LLMMessages(query, context, conversation_history) ==
    LET recent == LastN(conversation_history, HistoryWindow)
    IN <<SystemMessage("system_prompt")>>
       \o [i \in DOMAIN recent |->
              IF recent[i].role = "user"
              THEN HumanMessage(recent[i].content)
              ELSE SystemMessage(recent[i].content)]
       \o <<HumanMessage([context |-> context, question |-> query])>>

InitHistory ==
    /\ InitStore
    /\ ingest = NoIngest
    /\ processed = {}
    /\ probe = NoProbe

\* A turn of a notebook was saved.
PersistTurn ==
    /\ probe.op = "none"
    /\ Len(chat_messages) < MaxHistory
    /\ \E nb \in 1..2 :
          LET k == Len(chat_messages) + 1
          IN chat_messages' = save_chat_message(chat_messages, k,
                 [notebook_id |-> nb, user_message |-> <<"q", k>>,
                  assistant_response |-> <<"a", k>>, citations |-> <<>>])
    /\ UNCHANGED <<ingest, processed, probe>>
    /\ UNCHANGED <<books, chunks, notebooks, turns, rpc_calls, last_write, failures>>

\* process_chat, lines 75-83, of a turn of notebook 1: the history is read
\* and formatted, and the messages of the prompt are built.
BuildPrompt ==
    /\ probe.op = "none"
    /\ \E ok \in BOOLEAN :
          LET chat_history == get_chat_history(chat_messages, 1, HistoryLimit, ok)
          IN probe' = [op |-> "messages", notebook_id |-> 1, ok |-> ok,
                       messages |-> LLMMessages("query", "context",
                                        format_chat_history(chat_history))]
    /\ UNCHANGED <<ingest, processed>>
    /\ UNCHANGED <<books, chunks, notebooks, chat_messages, turns, rpc_calls,
                   last_write, failures>>

NextHistory ==
    \/ PersistTurn
    \/ BuildPrompt

SpecHistory == InitHistory /\ [][NextHistory]_vars

(***************************************************************************)
(* DocumentProcessor.create_chunks on its own: the pages are drawn from    *)
(* PageInputs and chunked.  The page texts are shorter than, as long as    *)
(* and longer than the chunk size; the page numbers increase and need not  *)
(* be consecutive, the pages without text being left out by                *)
(* extract_text_from_pdf.                                                  *)
(***************************************************************************)
Digit(i) == <<"0", "1", "2", "3", "4", "5", "6", "7", "8", "9">>[(i % 10) + 1]

\* A text of n characters without a separator.
Text(n) == [i \in 1..n |-> Digit(i)]

PageLengths == {0, 1, ChunkSize - 1, ChunkSize, ChunkSize + 1,
                2 * ChunkSize - ChunkOverlap + 1}

PageTexts == {Text(n) : n \in PageLengths} \cup {<<"a", " ", "b">>, <<" ">>}

PageNumbers(n) ==
    {f \in [1..n -> 1..(n + 1)] : \A i \in 1..(n - 1) : f[i] < f[i + 1]}

PageInputs ==
    UNION {{[i \in 1..n |-> <<texts[i], nums[i]>>] :
                texts \in [1..n -> PageTexts], nums \in PageNumbers(n)} :
           n \in 0..MaxPages}

InitChunks ==
    /\ InitStore
    /\ ingest = NoIngest
    /\ processed = {}
    /\ probe \in {[op |-> "pages", pages |-> p] : p \in PageInputs}

CreateChunks ==
    /\ probe.op = "pages"
    /\ probe' = [op |-> "create_chunks", pages |-> probe.pages,
                 chunks |-> create_chunks(probe.pages)]
    /\ UNCHANGED <<ingest, processed>>
    /\ UNCHANGED <<books, chunks, notebooks, chat_messages, turns, rpc_calls,
                   last_write, failures>>

NextChunks == CreateChunks

SpecChunks == InitChunks /\ [][NextChunks]_vars

(***************************************************************************)
(* ChatService._extract_citations on its own: the chunks are drawn from    *)
(* CitedInputs, with contents up to MaxExtra characters longer than the    *)
(* preview, and with or without the title and author of their book.        *)
(***************************************************************************)
CitedChunk(n, known) ==
    [id |-> 1, book_id |-> "b1", content |-> Text(n), page_start |-> 1,
     page_end |-> 1, chunk_index |-> 0, similarity |-> 1,
     book_title |-> IF known THEN "Title1" ELSE Absent,
     book_author |-> IF known THEN "Author1" ELSE Absent]

CitedInputs ==
    {<<>>}
    \cup {<<CitedChunk(n, known)>> : n \in 0..(PreviewLen + MaxExtra), known \in BOOLEAN}
    \cup {<<CitedChunk(PreviewLen + 1, TRUE), CitedChunk(n, TRUE)>> :
             n \in (PreviewLen - 1)..(PreviewLen + MaxExtra)}

InitCitations ==
    /\ InitStore
    /\ ingest = NoIngest
    /\ processed = {}
    /\ probe \in {[op |-> "chunks", relevant_chunks |-> c] : c \in CitedInputs}

ExtractCitations ==
    /\ probe.op = "chunks"
    /\ probe' = [op |-> "extract_citations",
                 relevant_chunks |-> probe.relevant_chunks,
                 citations |-> extract_citations(probe.relevant_chunks)]
    /\ UNCHANGED <<ingest, processed>>
    /\ UNCHANGED <<books, chunks, notebooks, chat_messages, turns, rpc_calls,
                   last_write, failures>>

NextCitations == ExtractCitations

SpecCitations == InitCitations /\ [][NextCitations]_vars

(***************************************************************************)
(* RAGService.create_context_from_chunks and the result of                 *)
(* generate_response on their own.  The context is a text, character by    *)
(* character; the chunks are drawn from ContextInputs, their contents      *)
(* with and without the words the context begins each part with.           *)
(***************************************************************************)
\* str(n) of a natural number
RECURSIVE Str(_)
Str(n) == IF n < 10 THEN <<Digit(n)>> ELSE Str(n \div 10) \o <<Digit(n % 10)>>

FromTag == <<"[", "F", "r", "o", "m">>

\* f"[From {book_title}, pages {page_start}-{page_end}]\n{chunk['content']}\n"
ContextPart(chunk) ==
    FromTag \o <<" ">>
    \o (IF "book_title" \in DOMAIN chunk
        THEN chunk.book_title
        ELSE <<"U", "n", "k", "n", "o", "w", "n", " ", "B", "o", "o", "k">>)
    \o <<",", " ", "p", "a", "g", "e", "s", " ">>
    \o Str(chunk.page_start) \o <<"-">> \o Str(chunk.page_end) \o <<"]", NL>>
    \o chunk.content \o <<NL>>

\* "\n".join(context_parts)
RECURSIVE JoinLines(_)
JoinLines(parts) ==
    IF parts = <<>> THEN <<>>
    ELSE IF Len(parts) = 1 THEN parts[1]
    ELSE parts[1] \o <<NL>> \o JoinLines(Tail(parts))

create_context_from_chunks(cs) ==
    JoinLines([i \in DOMAIN cs |-> ContextPart(cs[i])])

\* len(text.split(sep)): one more than the occurrences of sep in the text,
\* counted from the left without overlap.
RECURSIVE SplitCount(_, _)
SplitCount(text, sep) ==
    IF Len(text) < Len(sep) THEN 1
    ELSE IF SubSeq(text, 1, Len(sep)) = sep
         THEN 1 + SplitCount(SubSeq(text, Len(sep) + 1, Len(text)), sep)
         ELSE SplitCount(Tail(text), sep)

\* The dictionary generate_response returns.
RagResponse(query, context, ok, content) ==
    [response |-> generate_response(query, ok, content).response,
     context_used |-> IF ok THEN context ELSE EmptyText,
     chunks_retrieved |-> IF ok THEN SplitCount(context, FromTag) - 1 ELSE 0]

ContextContents ==
    {<<"x">>, <<>>, <<"[", "F">>, FromTag \o <<" ", "a">>,
     <<"s", "e", "e", " ">> \o FromTag \o <<" ">> \o FromTag}

\* A chunk as the search returns it, and with the title of its book.
ContextChunk(content, titled, page) ==
    IF titled
    THEN [book_id |-> "b1", content |-> content, page_start |-> page,
          page_end |-> page, book_title |-> <<"T", "1">>]
    ELSE [book_id |-> "b1", content |-> content, page_start |-> page,
          page_end |-> page]

ContextInputs ==
    UNION {{[i \in 1..n |-> ContextChunk(contents[i], titled[i], 9 + i)] :
                contents \in [1..n -> ContextContents],
                titled \in [1..n -> BOOLEAN]} :
           n \in 0..MaxContext}

InitContext ==
    /\ InitStore
    /\ ingest = NoIngest
    /\ processed = {}
    /\ probe \in {[op |-> "context_chunks", relevant_chunks |-> c] : c \in ContextInputs}

\* process_chat, lines 73-83: the context is made of the chunks and the
\* answer is generated.
GenerateResponse ==
    /\ probe.op = "context_chunks"
    /\ \E ok \in BOOLEAN :
          LET context == create_context_from_chunks(probe.relevant_chunks)
          IN probe' = [op |-> "generate_response",
                       relevant_chunks |-> probe.relevant_chunks,
                       ok |-> ok,
                       rag_response |-> RagResponse("query", context, ok, "answer1")]
    /\ UNCHANGED <<ingest, processed>>
    /\ UNCHANGED <<books, chunks, notebooks, chat_messages, turns, rpc_calls,
                   last_write, failures>>

NextContext == GenerateResponse

SpecContext == InitContext /\ [][NextContext]_vars

(***************************************************************************)
(* Properties.                                                             *)
(***************************************************************************)
Returned(t) == turns[t].pc = "done"

Stored(t) == notebooks[turns[t].req.notebook_id]

MessageSaved(t) == \E i \in DOMAIN chat_messages : chat_messages[i].id = t

WroteLast(t) ==
    /\ last_write[turns[t].req.notebook_id] /= <<>>
    /\ last_write[turns[t].req.notebook_id][1].turn = t

\* No other turn wrote the notebook's memory since turn t read it.
Undisturbed(t) ==
    LET n == turns[t].req.notebook_id
    IN \/ WriteCount(n) = turns[t].seen_writes
       \/ WriteCount(n) = turns[t].seen_writes + 1 /\ WroteLast(t)

EmptyScope(t) ==
    /\ turns[t].found
    /\ turns[t].notebook.selected_books = <<>>
    /\ turns[t].notebook.selected_genres = <<>>

\* C1: a turn on a notebook with no selected books and no selected genres
\* returns the fixed no-documents message with no citations and the
\* notebook's stored memory and key facts, saves no chat message and does
\* not write the notebook.
C1_EmptyScopeAnswer ==
    \A t \in Turns :
        Returned(t) /\ EmptyScope(t) =>
            /\ turns[t].http = 200
            /\ turns[t].response =
                  ChatResponse(NO_DOCUMENTS, <<>>, Stored(t).memory_summary,
                               Stored(t).key_facts)
            /\ turns[t].response.memory_summary = turns[t].notebook.memory_summary
            /\ turns[t].response.key_facts = turns[t].notebook.key_facts
            /\ ~MessageSaved(t)
            /\ ~WroteLast(t)
            /\ turns[t].book_ids \notin rpc_calls

C1_Witness ==
    \E t \in Turns :
        /\ Returned(t) /\ EmptyScope(t)
        /\ turns[t].response.response = NO_DOCUMENTS

BooksOfGenres(genres) == {b \in DOMAIN books : books[b].genre \in genres}

\* C2 as stated: the candidate books of a turn are the union of the
\* selected books and the books of the selected genres (turns whose genre
\* lookups all succeeded).
C2_UnionScope ==
    \A t \in Turns :
        turns[t].found /\ turns[t].genre_failed = {} =>
            Range(turns[t].book_ids) =
                Range(turns[t].notebook.selected_books)
                \cup BooksOfGenres(Range(turns[t].notebook.selected_genres))

\* C2 as amended: the candidate books of a turn are the selected books
\* alone when there are any, the genres being ignored; only when no book is
\* selected are they the books of the selected genres whose lookup
\* succeeded, each once.  A turn that searches passes exactly this list.
C2_SelectedBooksFirst ==
    \A t \in Turns :
        turns[t].found =>
            /\ IF turns[t].notebook.selected_books /= <<>>
               THEN turns[t].book_ids = turns[t].notebook.selected_books
               ELSE /\ Range(turns[t].book_ids) =
                          BooksOfGenres(Range(turns[t].notebook.selected_genres)
                                        \ turns[t].genre_failed)
                    /\ NoDuplicates(turns[t].book_ids)
            /\ turns[t].pc \in {"generate", "save", "update"} =>
                  turns[t].book_ids \in rpc_calls

C2_Witness ==
    \E t \in Turns :
        /\ turns[t].pc = "generate"
        /\ turns[t].notebook.selected_books = <<"b3">>
        /\ turns[t].notebook.selected_genres = <<"history">>
        /\ turns[t].book_ids = <<"b3">>
        /\ rpc_calls = {<<"b3">>}

\* C3: match_documents is never called with an empty list of books.
C3_NoEmptySearch ==
    \A book_ids \in rpc_calls : book_ids /= <<>>

\* C4: the matches of a turn, and so its citations, are at most top_k,
\* each of a candidate book, and in descending order of similarity.
C4_MatchesBounded ==
    \A t \in Turns :
        LET m == turns[t].relevant_chunks
        IN /\ Len(m) <= TopK
           /\ \A i \in DOMAIN m : m[i].book_id \in Range(turns[t].book_ids)
           /\ \A i, j \in DOMAIN m : i < j => m[i].similarity >= m[j].similarity
           /\ Len(turns[t].citations) <= TopK
           /\ Len(turns[t].response.citations) <= TopK
           /\ turns[t].pc \in {"save", "update"} => Len(turns[t].citations) = Len(m)

C4_Witness ==
    \E t \in Turns :
        /\ turns[t].pc = "save"
        /\ Len(turns[t].relevant_chunks) = TopK
        /\ Len(turns[t].citations) = TopK
        /\ Cardinality({c \in chunks : c.book_id \in Range(turns[t].book_ids)}) > TopK

\* C5: when the answer generation fails in a turn, the notebook's stored
\* summary after the turn is the one it had before the turn.
C5_GenFailureKeepsSummary ==
    \A t \in Turns :
        Returned(t) /\ turns[t].found /\ ~turns[t].gen_ok /\ Undisturbed(t) =>
            Stored(t).memory_summary = turns[t].notebook.memory_summary

\* C6: a notebook whose memory was never written has an empty summary and
\* no key facts; after a write, the stored summary is the output of the
\* writing turn's summary call, which was made with the summary that turn
\* read and its question and answer (the summary the turn read when the
\* call failed).
C6_SummaryReplaced ==
    \A n \in DOMAIN notebooks :
        IF last_write[n] = <<>>
        THEN notebooks[n].memory_summary = EmptyText /\ notebooks[n].key_facts = <<>>
        ELSE LET w == last_write[n][1]
             IN /\ notebooks[n].memory_summary =
                      IF w.summary_ok THEN w.summary_out ELSE w.prior
                /\ w.summary_prompt =
                      [current_summary |-> w.prior, question |-> w.question,
                       answer |-> w.answer]

C6_Witness ==
    \E n \in DOMAIN notebooks :
        /\ last_write[n] /= <<>>
        /\ last_write[n][1].summary_ok
        /\ last_write[n][1].gen_ok
        /\ last_write[n][1].prior /= EmptyText
        /\ notebooks[n].memory_summary = last_write[n][1].summary_out
        /\ notebooks[n].memory_summary /= last_write[n][1].prior

\* C7: when the answer generation fails in a turn, the response carries
\* the apology and no citations, and no error reaches the caller.
C7_GenFailureNoCitations ==
    \A t \in Turns :
        Returned(t) /\ ~turns[t].gen_ok =>
            /\ turns[t].http = 200
            /\ turns[t].response.response = APOLOGY
            /\ turns[t].response.citations = <<>>

\* The positions of the bullet lines of an LLM output.
BulletLines(content) ==
    LET lines == SplitLines(content)
    IN {i \in DOMAIN lines :
           LET l == Strip(lines[i]) IN l /= <<>> /\ l[1] \in Bullets}

\* The j-th smallest element of a set of numbers.
Nth(S, j) == CHOOSE i \in S : Cardinality({k \in S : k <= i}) = j

C9_LaterWriteWins ==
    \A n \in DOMAIN notebooks :
        last_write[n] /= <<>> /\ last_write[n][1].raced =>
            LET w == last_write[n][1]
            IN /\ notebooks[n].memory_summary = w.memory_summary
               /\ notebooks[n].key_facts = w.key_facts
               /\ w.summary_prompt.current_summary = w.prior
               /\ \E i \in DOMAIN chat_messages : chat_messages[i].id = w.turn
               /\ \E i \in DOMAIN chat_messages : chat_messages[i].id = w.clobbered

C9_Witness ==
    \E n \in DOMAIN notebooks :
        /\ last_write[n] /= <<>>
        /\ last_write[n][1].raced
        /\ last_write[n][1].summary_ok
        /\ last_write[n][1].prior = last_write[n][1].clobbered_prior
        /\ last_write[n][1].clobbered_summary /= last_write[n][1].prior
        /\ notebooks[n].memory_summary /= last_write[n][1].clobbered_summary
        /\ notebooks[n].memory_summary = last_write[n][1].summary_out
        /\ \E i, j \in DOMAIN chat_messages :
              /\ chat_messages[i].id = last_write[n][1].clobbered
              /\ chat_messages[j].id = last_write[n][1].turn
              /\ chat_messages[i].notebook_id = n
              /\ chat_messages[j].notebook_id = n

Chars == {"-", BULLET, " ", NL, ":", "K", "a", "b", "c", "1", "2", "3", "4", "5", "6"}

Citations ==
    [book_title : STRING, book_author : STRING, page_start : Nat, page_end : Nat,
     content_preview : Seq({"c", "e", "o", "."})]

\* A well-formed ChatResponse.
WellFormed(r) ==
    /\ r.response \in {NO_DOCUMENTS, NO_RELEVANT, APOLOGY} \cup Answers
    /\ r.citations \in Seq(Citations)
    /\ r.memory_summary \in Seq({"s1", "s2", "s3", "s4"})
    /\ r.key_facts \in Seq(Seq(Chars))

\* C10: process_chat never raises: whatever call fails, the turn returns a
\* well-formed ChatResponse.
C10_NeverRaises ==
    \A t \in Turns :
        /\ turns[t].http /= 500
        /\ Returned(t) => turns[t].http = 200 /\ WellFormed(turns[t].response)

C10_Witness ==
    \E t \in Turns :
        /\ Returned(t)
        /\ turns[t].pc = "done"
        /\ turns[t].relevant_chunks /= <<>>
        /\ ~turns[t].saved
        /\ failures > 0
        /\ turns[t].response = ChatResponse(APOLOGY, <<>>, EmptyText, <<>>)

\* C11: a turn whose notebook does not exist, or is not the requesting
\* user's, is answered with a message of its own, which is not the apology
\* of a provider error, and leaves no chat message and no memory write.
C11_MissingNotebookMessage ==
    \A t \in Turns :
        Returned(t) /\ ~turns[t].found /\ failures = 0 =>
            /\ turns[t].response.response /= APOLOGY
            /\ ~MessageSaved(t)
            /\ ~WroteLast(t)

\* C17: the chat message log only grows at its end: no step changes or
\* removes a stored message, a step adds at most one, and no turn has more
\* than one message in the log.
C17_AppendOnly ==
    /\ [](\A t \in Turns :
            Cardinality({i \in DOMAIN chat_messages : chat_messages[i].id = t}) <= 1)
    /\ [][/\ Len(chat_messages') \in {Len(chat_messages), Len(chat_messages) + 1}
          /\ SubSeq(chat_messages', 1, Len(chat_messages)) = chat_messages]_vars

C17_Witness ==
    /\ Len(chat_messages) = 2
    /\ chat_messages[1].id /= chat_messages[2].id
    /\ \E t \in Turns : turns[t].pc = "update" /\ chat_messages[2].id = t

\* The chunks create_chunks made of the pages it was given.
Chunked == probe.op = "create_chunks"

\* C14: the chunks create_chunks returns are numbered 0, 1, ..., n-1 in the
\* order they are returned, across the pages.
C14_ChunkIndexGlobal ==
    Chunked =>
        \A i \in DOMAIN probe.chunks : probe.chunks[i].chunk_index = i - 1

C14_Witness ==
    /\ Chunked
    /\ Len(probe.pages) = 2
    /\ \E i \in DOMAIN probe.chunks :
          /\ i >= 3
          /\ probe.chunks[i].metadata.chunk_in_page = 0
          /\ probe.chunks[i].chunk_index = i - 1
          /\ probe.chunks[i].page_start = probe.pages[2][2]
          /\ probe.chunks[i - 1].page_start = probe.pages[1][2]

\* The pages with text, cleaned and stripped, shorter than the chunk size.
ShortPages ==
    {j \in DOMAIN probe.pages :
        LET t == probe.pages[j][1]
        IN t /= <<>> /\ Strip(t) = t /\ Len(t) < ChunkSize}

\* C15: a page whose text is shorter than the chunk size gives exactly one
\* chunk, which holds the whole text of the page and starts and ends on it.
C15_ShortPageOneChunk ==
    Chunked =>
        \A j \in ShortPages :
            LET of_page == {i \in DOMAIN probe.chunks :
                               probe.chunks[i].page_start = probe.pages[j][2]}
            IN /\ Cardinality(of_page) = 1
               /\ \A i \in of_page :
                     /\ probe.chunks[i].content = probe.pages[j][1]
                     /\ probe.chunks[i].page_end = probe.pages[j][2]

C15_Witness ==
    /\ Chunked
    /\ \E j \in ShortPages :
          /\ Len(probe.pages[j][1]) = ChunkSize - 1
          /\ \E i \in DOMAIN probe.chunks : probe.chunks[i].content = probe.pages[j][1]
    /\ \E j \in DOMAIN probe.pages : Len(probe.pages[j][1]) > ChunkSize

\* C16: every chunk given to the citation extractor gets one citation, in
\* order; its preview is the content when the content has at most 100
\* characters, and otherwise the first 100 characters of the content
\* followed by three dots.
C16_ContentPreview ==
    probe.op = "extract_citations" =>
        /\ Len(probe.citations) = Len(probe.relevant_chunks)
        /\ \A i \in DOMAIN probe.relevant_chunks :
              LET content == probe.relevant_chunks[i].content
                  preview == probe.citations[i].content_preview
              IN IF Len(content) <= 100
                 THEN preview = content
                 ELSE /\ Len(preview) = 103
                      /\ \A k \in 1..100 : preview[k] = content[k]
                      /\ \A k \in 101..103 : preview[k] = "."

C16_Witness ==
    /\ probe.op = "extract_citations"
    /\ Len(probe.relevant_chunks) = 2
    /\ Len(probe.relevant_chunks[1].content) = 101
    /\ Len(probe.citations[1].content_preview) = 103
    /\ Len(probe.relevant_chunks[2].content) = 100
    /\ probe.citations[2].content_preview = probe.relevant_chunks[2].content

\* An ingestion request is running or has answered.
Ingesting == ingest.path /= "none"

Answered == Ingesting /\ ingest.stage = "done"

\* The file can be ingested by `path` when no call fails: it exists, it
\* passes the checks of the path, and it has a page with text.
Ingestible(path, file_path) ==
    /\ Exists(file_path)
    /\ path /= "api_batch" => IsPdf(file_path)
    /\ extract_text_from_pdf(file_path) /= <<>>

C13_NonPdfRejected ==
    /\ \A f \in processed : IsPdf(f)
    /\ \A b \in DOMAIN books \ DOMAIN LibraryBooks : IsPdf(books[b].file_path)

\* C18: every stored chunk is of a stored book.
C18_ChunksReferenceBooks ==
    \A c \in chunks : c.book_id \in DOMAIN books

C18_Witness ==
    /\ Answered
    /\ failures > 0
    /\ \E i \in DOMAIN ingest.results : ingest.results[i].status = "error"
    /\ \E c \in chunks : c.book_id \notin DOMAIN LibraryBooks
    /\ \E b \in DOMAIN books \ DOMAIN LibraryBooks : \A c \in chunks : c.book_id /= b

\* C20: a document whose embeddings cannot be generated is an error (a
\* server error for an upload), and its ingestion stores no book and no
\* chunk.
C20_EmbeddingFailureFatal ==
    Ingesting =>
        \A i \in DOMAIN ingest.trace :
            "embed" \in ingest.trace[i].failed =>
                /\ ingest.results[i].status = "error"
                /\ ingest.path = "upload" => ingest.http = 500
                /\ ingest.trace[i].books = {}
                /\ ingest.trace[i].chunks = {}

C20_Witness ==
    /\ Answered
    /\ ingest.path = "api_batch"
    /\ Len(ingest.docs) = 2
    /\ ingest.trace[1].failed = {"embed"}
    /\ ingest.results[1].status = "error"
    /\ ingest.results[2].status = "success"
    /\ Cardinality(DOMAIN books \ DOMAIN LibraryBooks) = 1

\* An assistant-role message.
AIMessage(content) == [type |-> "ai", content |-> content]

\* The turns a prompt should carry: the last at most five saved turns of
\* the notebook, each as the user's message and the assistant's answer.
RecentTurns(notebook_id) ==
    LET turns_saved == OfNotebook(chat_messages, notebook_id)
        recent == LastN(turns_saved, 5)
    IN [i \in 1..(2 * Len(recent)) |->
           IF i % 2 = 1
           THEN HumanMessage(recent[(i + 1) \div 2].user_message)
           ELSE AIMessage(recent[i \div 2].assistant_response)]

\* C19: the messages sent to the answer LLM are the system instruction,
\* then the most recent min(5, n) saved turns of the notebook, oldest
\* first, each as a user message followed by an assistant message, then
\* the current query.
C19_RecentTurnsHistory ==
    probe.op = "messages" /\ probe.ok =>
        probe.messages =
            <<SystemMessage("system_prompt")>>
            \o RecentTurns(probe.notebook_id)
            \o <<HumanMessage([context |-> "context", question |-> "query"])>>

\* C21: the documents of a batch are ingested one at a time, the result of
\* each being recorded before the next is begun, and the batch pauses
\* between one document and the next.
C21_SequentialWithPause ==
    Ingesting /\ ingest.path \in {"api_batch", "cli_batch"} =>
        /\ Len(ingest.results) = ingest.pos - 1
        /\ Len(ingest.trace) = ingest.pos - 1
        /\ ingest.pos >= 3 => ingest.pauses >= ingest.pos - 2

\* The notebook record with its memory summary and key facts left out.
OutsideMemory(notebook) ==
    [notebook EXCEPT !.memory_summary = EmptyText, !.key_facts = <<>>]

\* C22 as stated: no step changes any field of a stored notebook but its
\* memory summary and its key facts.
C22_OnlyMemoryChanges ==
    [][\A n \in DOMAIN notebooks :
          /\ n \in DOMAIN notebooks'
          /\ OutsideMemory(notebooks'[n]) = OutsideMemory(notebooks[n])]_vars

\* C22 as amended: no step removes a stored notebook or changes its id,
\* user, name, selected books, selected genres or time of creation; a step
\* that changes the record changes its memory summary, its key facts and
\* its time of update only, and sets the time of update to a later one.
C22_MemoryAndUpdateTime ==
    [][\A n \in DOMAIN notebooks :
          /\ n \in DOMAIN notebooks'
          /\ notebooks'[n].id = notebooks[n].id
          /\ notebooks'[n].user_id = notebooks[n].user_id
          /\ notebooks'[n].name = notebooks[n].name
          /\ notebooks'[n].selected_books = notebooks[n].selected_books
          /\ notebooks'[n].selected_genres = notebooks[n].selected_genres
          /\ notebooks'[n].created_at = notebooks[n].created_at
          /\ DOMAIN notebooks'[n] = DOMAIN notebooks[n]
          /\ notebooks'[n] /= notebooks[n] =>
                notebooks'[n].updated_at > notebooks[n].updated_at]_vars

C22_Witness ==
    \E n \in DOMAIN notebooks :
        /\ last_write[n] /= <<>>
        /\ notebooks[n].selected_genres /= <<>>
        /\ notebooks[n].memory_summary /= EmptyText
        /\ notebooks[n].key_facts /= <<>>
        /\ notebooks[n].updated_at > notebooks[n].created_at

\* The chunks stored for a book, in the order of their chunk_index.
ChunksOfBook(book_id) == {c \in chunks : c.book_id = book_id}

\* C23: after an ingestion that met no failure and was reported a success,
\* the book's total_pages is the number of pages of the file and as many
\* chunks are stored for the book as were made of the file; for a file of
\* two pages of text, each shorter than the chunk size, these are two
\* chunks, numbered 0 and 1, and total_pages is 2.
C23_TotalPagesAndChunks ==
    Ingesting =>
        \A i \in DOMAIN ingest.results :
            LET r == ingest.results[i]
                f == ingest.docs[i].file_path
            IN r.status = "success" /\ ingest.trace[i].failed = {} =>
                  /\ books[r.book_id].total_pages = Len(Disk[f])
                  /\ r.total_pages = Len(Disk[f])
                  /\ Cardinality(ChunksOfBook(r.book_id))
                        = Len(create_chunks(extract_text_from_pdf(f)))
                  /\ r.chunks_created = Cardinality(ChunksOfBook(r.book_id))
                  /\ f = TwoPdf =>
                        /\ {c.chunk_index : c \in ChunksOfBook(r.book_id)} = {0, 1}
                        /\ Cardinality(ChunksOfBook(r.book_id)) = 2
                        /\ books[r.book_id].total_pages = 2

\* C24: when the answer is generated, chunks_retrieved is the number of the
\* chunks the context was made of, whatever their contents.
C24_ChunksRetrievedCount ==
    probe.op = "generate_response" /\ probe.ok =>
        probe.rag_response.chunks_retrieved = Len(probe.relevant_chunks)

\* The turn's embedding call was made and failed.
EmbedFailed(t) == turns[t].found /\ turns[t].book_ids /= <<>> /\ ~turns[t].embed_ok

\* C25: a turn whose embedding call fails goes on with a fallback vector of
\* 384 components and the store is searched with it for the turn's books;
\* when no other call fails, the turn's chunks are what that search gives
\* and the turn ends with an answer and its citations, not with an error.
C25_EmbeddingFallback ==
    \A t \in Turns :
        EmbedFailed(t) =>
            /\ turns[t].query_embedding \in RandomVecs
            /\ Dimension(turns[t].query_embedding) = 384
            /\ turns[t].book_ids \in rpc_calls
            /\ turns[t].http /= 500
            /\ failures = 1 =>
                  /\ \E m \in search_chunks_vector(chunks, turns[t].query_embedding,
                                                   turns[t].book_ids, TopK, TRUE) :
                        /\ Len(m) = Len(turns[t].relevant_chunks)
                        /\ \A i \in DOMAIN m : m[i].id = turns[t].relevant_chunks[i].id
                  /\ turns[t].relevant_chunks /= <<>>
                  /\ Returned(t) =>
                        /\ turns[t].response.response \in Answers
                        /\ Len(turns[t].response.citations)
                              = Len(turns[t].relevant_chunks)

C25_Witness ==
    \E t \in Turns :
        /\ EmbedFailed(t)
        /\ Returned(t)
        /\ turns[t].query_embedding \in RandomVecs
        /\ turns[t].response.response \in Answers
        /\ turns[t].response.citations /= <<>>
        /\ MessageSaved(t)

\* The turn searched the store and got no chunk.
NoMatch(t) ==
    /\ turns[t].found
    /\ turns[t].book_ids /= <<>>
    /\ turns[t].relevant_chunks = <<>>

\* C26: a turn that searches for a non-empty list of books and gets no
\* chunk, the search having matched nothing or having failed, returns the
\* fixed no-relevant-information message with no citations and the memory
\* summary and key facts of the notebook, calls the LLM for nothing, saves
\* no chat message and does not write the notebook.
C26_NoMatchShortCircuit ==
    \A t \in Turns :
        NoMatch(t) =>
            /\ Returned(t)
            /\ turns[t].http = 200
            /\ turns[t].book_ids \in rpc_calls
            /\ turns[t].response =
                  ChatResponse(NO_RELEVANT, <<>>, turns[t].notebook.memory_summary,
                               turns[t].notebook.key_facts)
            /\ Undisturbed(t) =>
                  /\ turns[t].response.memory_summary = Stored(t).memory_summary
                  /\ turns[t].response.key_facts = Stored(t).key_facts
            /\ turns[t].rag_response = IdleTurn.rag_response
            /\ turns[t].summary_prompt = IdleTurn.summary_prompt
            /\ turns[t].new_key_facts = <<>>
            /\ ~MessageSaved(t)
            /\ ~WroteLast(t)

\* Two turns on the book without chunks: the search of one matched nothing
\* and the search of the other was the one call that failed.
C26_Witness ==
    \E t, u \in Turns :
        /\ t /= u
        /\ NoMatch(t) /\ NoMatch(u)
        /\ failures = 1
        /\ turns[t].embed_ok /\ turns[u].embed_ok
        /\ turns[t].book_ids = <<"b3">>
        /\ turns[u].book_ids = <<"b3">>
        /\ turns[t].response.response = NO_RELEVANT
        /\ turns[u].response.response = NO_RELEVANT

\* C27: the memory summary and the key facts a turn returns are the ones
\* stored for its notebook when it returns, on every path, no other turn
\* having written the notebook meanwhile.
C27_ResponseMatchesStore ==
    \A t \in Turns :
        Returned(t) /\ turns[t].found /\ Undisturbed(t) =>
            /\ turns[t].response.memory_summary = Stored(t).memory_summary
            /\ turns[t].response.key_facts = Stored(t).key_facts

\* The save of turn t's chat message failed.
SaveFailed(t) ==
    /\ Returned(t)
    /\ turns[t].relevant_chunks /= <<>>
    /\ ~turns[t].saved

Foreign(t) ==
    /\ turns[t].pc \notin {"idle", "finished"}
    /\ turns[t].req.notebook_id \in DOMAIN notebooks
    /\ turns[t].req.user_id /= notebooks[turns[t].req.notebook_id].user_id

\* C29: a turn whose request does not carry the user_id of the notebook's
\* owner, whatever it carries, does not find the notebook: it saves no chat
\* message, does not write the notebook's memory and returns no memory
\* summary and no key facts.
C29_ForeignUserRejected ==
    \A t \in Turns :
        Foreign(t) =>
            /\ ~turns[t].found
            /\ ~MessageSaved(t)
            /\ ~WroteLast(t)
            /\ turns[t].response.memory_summary = EmptyText
            /\ turns[t].response.key_facts = <<>>

\* C30: an ingestion reported as an error leaves no book of its own in the
\* store, an ingestion reported as a success has stored at least one chunk
\* of its book, and so every stored book has a stored chunk.
C30_AllOrNothing ==
    /\ Ingesting =>
          \A i \in DOMAIN ingest.results :
              /\ ingest.results[i].status = "error" => ingest.trace[i].books = {}
              /\ ingest.results[i].status = "success" => ingest.trace[i].chunks /= {}
    /\ \A b \in DOMAIN books : ChunksOfBook(b) /= {}

====
